---- MODULE Spec2Model ----
(***************************************************************************)
(* A model of `d`, the privileged disk mounting utility (src/src/main.rs). *)
(*                                                                         *)
(* The program is a sequence of short, synchronous process runs            *)
(* (`d m z`, `d u s`, `d c m`, ...) over OS-global state: the mount-point  *)
(* directories, the mount table, the device-mapper namespace and the       *)
(* /dev/disk/by-uuid registry.  Each run is one action that applies the    *)
(* whole of main; `d c <disk>` blocks in the middle on the sub-shell, so   *)
(* it is two actions (CdStart, CdExit) around that suspension point.       *)
(*                                                                         *)
(* Every function of the source is an operator of the same name that      *)
(* takes the OS state and the log of OS-level calls made so far and gives  *)
(* back a result record [ok, err, val, os, log].                           *)
(*                                                                         *)
(* Environment assumptions: the cryptsetup binary can be launched and the  *)
(* existence of a path under /mnt can be tested (the I/O errors of         *)
(* Command::status and Path::try_exists are not modelled).                 *)
(***************************************************************************)
EXTENDS Integers, Sequences, FiniteSets, TLC

\* ----------------------------------------------------------------- bounds
\* Program runs (invocations of main) in one behaviour.
MaxRuns == 2
\* External changes of the device registry (plug / unplug) in one behaviour.
MaxEnv == 1

\* ------------------------------------------------------ static data model
Disks == {"Zdani", "Sivydatni", "Muhackiku", "Barda", "Sivbra"}

Actions == {"Mount", "Unmount", "Cd"}

ActionTokens == {"m", "u", "c", "x"}

DiskTokens == {"z", "s", "m", "b", "sb", "x"}

NoValue == "none"

Action_from_str(s) ==
  CASE s = "m" -> [ok |-> TRUE, val |-> "Mount"]
    [] s = "u" -> [ok |-> TRUE, val |-> "Unmount"]
    [] s = "c" -> [ok |-> TRUE, val |-> "Cd"]
    [] OTHER -> [ok |-> FALSE, val |-> NoValue]

as_repr(disk) ==
  CASE disk = "Zdani" -> "zdani"
    [] disk = "Sivydatni" -> "sivydatni"
    [] disk = "Muhackiku" -> "muhackiku"
    [] disk = "Barda" -> "barda"
    [] disk = "Sivbra" -> "sivbra"

inner_filesystem(disk) == "ext4"

to_mountable(disk) ==
  CASE disk = "Zdani" ->
         [kind |-> "Plain", uuid |-> "9972ca08-32d9-42da-9418-1afa4a7f6966"]
    [] disk = "Sivydatni" ->
         [kind |-> "Encrypted",
          outer_uuid |-> "a02adf15-769d-4b61-9122-ddb3b3d1e7c2",
          inner_uuid |-> "ac80428f-f91d-4b99-9d40-c885d122be18"]
    [] disk = "Muhackiku" ->
         [kind |-> "Encrypted",
          outer_uuid |-> "809dbaf9-4c95-4baf-890c-e6866dd1a913",
          inner_uuid |-> "e1258f59-cb99-4b6b-8bd7-513c66d64439"]
    [] disk = "Barda" ->
         [kind |-> "Plain", uuid |-> "8f8ccfd3-aeae-4515-b081-3706561c64d4"]
    [] disk = "Sivbra" ->
         [kind |-> "Encrypted",
          outer_uuid |-> "5bd18b6b-1fc7-42e8-b318-c0c6d32ec86c",
          inner_uuid |-> "09edb833-774e-4480-b9fa-f9e81627b0d5"]

is_encrypted(disk) == to_mountable(disk).kind = "Encrypted"

\* The pairs the message of UnknownDisk names: token (name).
UnknownDisk_valid == {<<"z", "zdani">>, <<"s", "sivydatni">>,
                      <<"m", "muhackiku">>, <<"b", "barda">>}

Disk_from_str(s) ==
  CASE s = "z" -> [ok |-> TRUE, val |-> "Zdani"]
    [] s = "s" -> [ok |-> TRUE, val |-> "Sivydatni"]
    [] s = "m" -> [ok |-> TRUE, val |-> "Muhackiku"]
    [] s = "b" -> [ok |-> TRUE, val |-> "Barda"]
    [] s = "sb" -> [ok |-> TRUE, val |-> "Sivbra"]
    [] OTHER -> [ok |-> FALSE, val |-> NoValue]

\* Mutant of mount_path_for_name: one mount point for all the volumes.
mount_path_for_name_Shared(name) == "/mnt/disk"

mount_path_for_name(name) == "/mnt/" \o name

opened_name_for_encrypted(uuid, disk_name) == uuid \o "-" \o disk_name

\* ------------------------------------------------------------ the OS side
EncryptedDisks == {d \in Disks : is_encrypted(d)}

PlainDisks == Disks \ EncryptedDisks

\* The UUID under which a disk's hardware appears when it is plugged in.
PhysUuid(disk) ==
  IF is_encrypted(disk) THEN to_mountable(disk).outer_uuid
  ELSE to_mountable(disk).uuid

PhysUuids == {PhysUuid(d) : d \in Disks}

InnerUuids == {to_mountable(d).inner_uuid : d \in EncryptedDisks}

Uuids == PhysUuids \cup InnerUuids

MountPaths == {mount_path_for_name(as_repr(d)) : d \in Disks}

NoDev == "nodev"

\* The device node of a plugged-in disk or partition.
PhysNode(uuid) == "/dev/part-" \o uuid

\* The device node of an active device-mapper mapping.
MapperNode(name) == "/dev/mapper/" \o name

\* The UUID of the filesystem inside the LUKS container outer_uuid.
ContainedUuid(outer_uuid) ==
  to_mountable(CHOOSE d \in EncryptedDisks :
                 to_mountable(d).outer_uuid = outer_uuid).inner_uuid

VARIABLES
  dirs,      \* the mount-point directories that exist
  mtab,      \* mount table: mount point -> sequence of mounted device nodes
  maps,      \* device-mapper namespace: the active mapping names
  byUuid,    \* /dev/disk/by-uuid: uuid -> device node, or NoDev
  session,   \* the `d c` run blocked on its sub-shell, or NoSession
  last,      \* the record of the last completed run, or Idle
  runs,      \* program runs started so far
  envs       \* external registry changes so far

vars == <<dirs, mtab, maps, byUuid, session, last, runs, envs>>

OsNow == [dirs |-> dirs, mtab |-> mtab, maps |-> maps, byUuid |-> byUuid]

Range(s) == {s[i] : i \in 1..Len(s)}

\* One call made by the program: what, on what, with which device, and
\* what came back.
Ev(op, arg, dev, ret) == [op |-> op, arg |-> arg, dev |-> dev, ret |-> ret]

Ok(val, os, log) ==
  [ok |-> TRUE, err |-> <<>>, val |-> val, os |-> os, log |-> log]

Err(err, os, log) ==
  [ok |-> FALSE, err |-> err, val |-> NoValue, os |-> os, log |-> log]

\* anyhow's .context(): on error, put the context in front of the chain.
context(r, ctx) == IF r.ok THEN r ELSE [r EXCEPT !.err = <<ctx>> \o @]

\* The external failures a run can meet: an OS call or an external tool
\* that fails for a reason outside the modelled state (read-only /mnt, bad
\* superblock, wrong passphrase, open files, fish not installed, ...).
\* Every such failure ends the run at the call that met it (in do_cd's
\* cleanup it is the last call made), so a run meets at most one: each run
\* draws F, empty or naming the one call that fails if it is reached.
NoFault == {}

MountFaults(disk) ==
  {{"create_dir"}, {"mount"}}
    \cup (IF is_encrypted(disk) THEN {{"unlock"}} ELSE {})

UnmountFaults(disk) ==
  {{"umount"}} \cup (IF is_encrypted(disk) THEN {{"close"}} ELSE {})

CdEnterFaults(disk) == MountFaults(disk) \cup {{"spawn"}}

CdLeaveFaults(disk) == UnmountFaults(disk) \cup {{"wait"}}

\* mount(2): EBUSY when the source is already mounted on the target.
sys_mount(os, F, dev, target) ==
  IF dev \in Range(os.mtab[target]) THEN [errno |-> "EBUSY", os |-> os]
  ELSE IF "mount" \in F THEN [errno |-> "EIO", os |-> os]
  ELSE [errno |-> "OK",
        os |-> [os EXCEPT !.mtab[target] = Append(@, dev)]]

\* umount(2): EINVAL when the target is not a mount point, EBUSY when in use.
sys_umount(os, F, target) ==
  IF os.mtab[target] = <<>> THEN [errno |-> "EINVAL", os |-> os]
  ELSE IF "umount" \in F THEN [errno |-> "EBUSY", os |-> os]
  ELSE [errno |-> "OK",
        os |-> [os EXCEPT !.mtab[target] = SubSeq(@, 1, Len(@) - 1)]]

\* `cryptsetup status <name>`: exit 0 iff the mapping is active.
cryptsetup_status(os, name) == IF name \in os.maps THEN 0 ELSE 4

\* `cryptsetup open <device> <name>`: fails when the name is taken (5) or
\* the passphrase is refused (2); on success the mapping is active and the
\* filesystem inside it appears in the by-uuid registry, unless another
\* device already holds the entry of that UUID.
cryptsetup_open(os, F, outer_uuid, name) ==
  IF name \in os.maps THEN [code |-> 5, os |-> os]
  ELSE IF "unlock" \in F THEN [code |-> 2, os |-> os]
  ELSE [code |-> 0,
        os |-> [os EXCEPT !.maps = @ \cup {name},
                          !.byUuid[ContainedUuid(outer_uuid)] =
                             IF @ = NoDev THEN MapperNode(name) ELSE @]]

MapperInUse(os, name) ==
  \E p \in MountPaths : MapperNode(name) \in Range(os.mtab[p])

\* `cryptsetup close <name>`: fails when the mapping is not active (4) or
\* still in use (5).
cryptsetup_close(os, F, name) ==
  IF name \notin os.maps THEN [code |-> 4, os |-> os]
  ELSE IF MapperInUse(os, name) \/ "close" \in F THEN [code |-> 5, os |-> os]
  ELSE [code |-> 0,
        os |-> [os EXCEPT
                  !.maps = @ \ {name},
                  !.byUuid = [u \in Uuids |->
                                IF @[u] = MapperNode(name) THEN NoDev
                                ELSE @[u]]]]

\* --------------------------------------------------- the program's functions
dev_path_for_uuid(os, log, uuid) ==
  IF os.byUuid[uuid] = NoDev
  THEN Err(<<"getting canonical device for by-UUID symlink">>, os,
           Append(log, Ev("canonicalize", uuid, "", "ENOENT")))
  ELSE Ok(os.byUuid[uuid], os,
          Append(log, Ev("canonicalize", uuid, os.byUuid[uuid], "OK")))

MountReturn(mount_path, was_already_mounted) ==
  [mount_path |-> mount_path, was_already_mounted |-> was_already_mounted]

\* Mutant of mount: every error of the mount syscall counts as mounted.
mount_AnyErrorIsMounted(os, log, F, uuid, disk_name, filesystem) ==
  LET mount_path == mount_path_for_name(disk_name)
      log0 == Append(log, Ev("mount", disk_name, "", ""))
      create == mount_path \notin os.dirs
      created == ~("create_dir" \in F)
      log1 == IF create
              THEN Append(log0, Ev("create_dir_all", mount_path, "",
                                   IF created THEN "OK" ELSE "EROFS"))
              ELSE log0
  IN
  IF create /\ ~created THEN Err(<<"creating mount path">>, os, log1)
  ELSE
    LET os1 == [os EXCEPT !.dirs = @ \cup {mount_path}]
        dev == dev_path_for_uuid(os1, log1, uuid)
    IN
    IF ~dev.ok THEN dev
    ELSE
      LET mount_res == sys_mount(os1, F, dev.val, mount_path)
          log3 == Append(dev.log, Ev("sys mount", mount_path, dev.val,
                                     mount_res.errno))
      IN
      IF mount_res.errno # "OK"
      THEN Ok(MountReturn(mount_path, TRUE), mount_res.os, log3)
      ELSE Ok(MountReturn(mount_path, FALSE), mount_res.os, log3)

\* Mutant of mount: EBUSY is an error like any other.
mount_EbusyFatal(os, log, F, uuid, disk_name, filesystem) ==
  LET mount_path == mount_path_for_name(disk_name)
      log0 == Append(log, Ev("mount", disk_name, "", ""))
      create == mount_path \notin os.dirs
      created == ~("create_dir" \in F)
      log1 == IF create
              THEN Append(log0, Ev("create_dir_all", mount_path, "",
                                   IF created THEN "OK" ELSE "EROFS"))
              ELSE log0
  IN
  IF create /\ ~created THEN Err(<<"creating mount path">>, os, log1)
  ELSE
    LET os1 == [os EXCEPT !.dirs = @ \cup {mount_path}]
        dev == dev_path_for_uuid(os1, log1, uuid)
    IN
    IF ~dev.ok THEN dev
    ELSE
      LET mount_res == sys_mount(os1, F, dev.val, mount_path)
          log3 == Append(dev.log, Ev("sys mount", mount_path, dev.val,
                                     mount_res.errno))
      IN
      IF mount_res.errno # "OK"
      THEN Err(<<"making mount syscall", mount_res.errno>>, mount_res.os, log3)
      ELSE Ok(MountReturn(mount_path, FALSE), mount_res.os, log3)

mount(os, log, F, uuid, disk_name, filesystem) ==
  LET mount_path == mount_path_for_name(disk_name)
      log0 == Append(log, Ev("mount", disk_name, "", ""))
      create == mount_path \notin os.dirs
      created == ~("create_dir" \in F)
      log1 == IF create
              THEN Append(log0, Ev("create_dir_all", mount_path, "",
                                   IF created THEN "OK" ELSE "EROFS"))
              ELSE log0
  IN
  IF create /\ ~created THEN Err(<<"creating mount path">>, os, log1)
  ELSE
    LET os1 == [os EXCEPT !.dirs = @ \cup {mount_path}]
        dev == dev_path_for_uuid(os1, log1, uuid)
    IN
    IF ~dev.ok THEN dev
    ELSE
      LET mount_res == sys_mount(os1, F, dev.val, mount_path)
          log3 == Append(dev.log, Ev("sys mount", mount_path, dev.val,
                                     mount_res.errno))
      IN
      IF mount_res.errno = "EBUSY"
      THEN Ok(MountReturn(mount_path, TRUE), mount_res.os, log3)
      ELSE IF mount_res.errno # "OK"
      THEN Err(<<"making mount syscall", mount_res.errno>>, mount_res.os, log3)
      ELSE Ok(MountReturn(mount_path, FALSE), mount_res.os, log3)

\* Mutant of unmount: the umount syscall is made whether or not the mount
\* path exists.
unmount_NoExistsCheck(os, log, F, disk_name) ==
  LET mount_path == mount_path_for_name(disk_name)
      log0 == Append(log, Ev("unmount", disk_name, "", ""))
      umount_res == sys_umount(os, F, mount_path)
      log1 == Append(log0, Ev("sys umount", mount_path, "", umount_res.errno))
  IN
  IF umount_res.errno = "EINVAL" THEN Ok(NoValue, umount_res.os, log1)
  ELSE IF umount_res.errno # "OK"
  THEN Err(<<"making umount syscall", umount_res.errno>>, umount_res.os, log1)
  ELSE Ok(NoValue, umount_res.os, log1)

\* Mutant of unmount: no error of the umount syscall is a failure.
unmount_AnyErrorTolerated(os, log, F, disk_name) ==
  LET mount_path == mount_path_for_name(disk_name)
      log0 == Append(log, Ev("unmount", disk_name, "", ""))
  IN
  IF mount_path \in os.dirs
  THEN
    LET umount_res == sys_umount(os, F, mount_path)
        log1 == Append(log0, Ev("sys umount", mount_path, "",
                                umount_res.errno))
    IN Ok(NoValue, umount_res.os, log1)
  ELSE Ok(NoValue, os, log0)

\* Mutant of unmount: EINVAL is an error like any other.
unmount_EinvalFatal(os, log, F, disk_name) ==
  LET mount_path == mount_path_for_name(disk_name)
      log0 == Append(log, Ev("unmount", disk_name, "", ""))
  IN
  IF mount_path \in os.dirs
  THEN
    LET umount_res == sys_umount(os, F, mount_path)
        log1 == Append(log0, Ev("sys umount", mount_path, "",
                                umount_res.errno))
    IN
    IF umount_res.errno # "OK"
    THEN Err(<<"making umount syscall", umount_res.errno>>, umount_res.os, log1)
    ELSE Ok(NoValue, umount_res.os, log1)
  ELSE Ok(NoValue, os, log0)

unmount(os, log, F, disk_name) ==
  LET mount_path == mount_path_for_name(disk_name)
      log0 == Append(log, Ev("unmount", disk_name, "", ""))
  IN
  IF mount_path \in os.dirs
  THEN
    LET umount_res == sys_umount(os, F, mount_path)
        log1 == Append(log0, Ev("sys umount", mount_path, "",
                                umount_res.errno))
    IN
    IF umount_res.errno = "EINVAL" THEN Ok(NoValue, umount_res.os, log1)
    ELSE IF umount_res.errno # "OK"
    THEN Err(<<"making umount syscall", umount_res.errno>>, umount_res.os, log1)
    ELSE Ok(NoValue, umount_res.os, log1)
  ELSE Ok(NoValue, os, log0)

\* Mutant of open_encrypted: no `cryptsetup status` check, it always unlocks.
open_encrypted_NoStatusCheck(os, log, F, luks_uuid, disk_name) ==
  LET opened_name == opened_name_for_encrypted(luks_uuid, disk_name)
      log0 == Append(log, Ev("open_encrypted", disk_name, "", ""))
      dev == dev_path_for_uuid(os, log0, luks_uuid)
  IN
  IF ~dev.ok THEN dev
  ELSE
    LET code == cryptsetup_open(os, F, luks_uuid, opened_name)
        log3 == Append(dev.log, Ev("cryptsetup open", opened_name, dev.val,
                                   ToString(code.code)))
    IN
    IF code.code = 0 THEN Ok(NoValue, code.os, log3)
    ELSE Err(<<"cryptsetup exited with status", ToString(code.code)>>,
             code.os, log3)

open_encrypted(os, log, F, luks_uuid, disk_name) ==
  LET opened_name == opened_name_for_encrypted(luks_uuid, disk_name)
      log0 == Append(log, Ev("open_encrypted", disk_name, "", ""))
      status == cryptsetup_status(os, opened_name)
      log1 == Append(log0, Ev("cryptsetup status", opened_name, "",
                              ToString(status)))
  IN
  IF status = 0 THEN Ok(NoValue, os, log1)
  ELSE
    LET dev == dev_path_for_uuid(os, log1, luks_uuid) IN
    IF ~dev.ok THEN dev
    ELSE
      LET code == cryptsetup_open(os, F, luks_uuid, opened_name)
          log3 == Append(dev.log, Ev("cryptsetup open", opened_name, dev.val,
                                     ToString(code.code)))
      IN
      IF code.code = 0 THEN Ok(NoValue, code.os, log3)
      ELSE Err(<<"cryptsetup exited with status", ToString(code.code)>>,
               code.os, log3)

close_encrypted(os, log, F, luks_uuid, disk_name) ==
  LET opened_name == opened_name_for_encrypted(luks_uuid, disk_name)
      log0 == Append(log, Ev("close_encrypted", disk_name, "", ""))
      code == cryptsetup_close(os, F, opened_name)
      log1 == Append(log0, Ev("cryptsetup close", opened_name, "",
                              ToString(code.code)))
  IN
  IF code.code = 0 THEN Ok(NoValue, code.os, log1)
  ELSE Err(<<"cryptsetup exited with status", ToString(code.code)>>,
           code.os, log1)

\* Mutant of do_mount: a mount that fails after the open is rolled back by
\* closing the mapping.
do_mount_RollsBack(os, log, F, disk) ==
  LET disk_name == as_repr(disk)
      filesystem == inner_filesystem(disk)
      mountable == to_mountable(disk)
      log0 == Append(log, Ev("do_mount", disk_name, "", ""))
  IN
  IF mountable.kind = "Plain"
  THEN context(mount(os, log0, F, mountable.uuid, disk_name, filesystem),
               "mounting")
  ELSE
    LET opened == context(open_encrypted(os, log0, F, mountable.outer_uuid,
                                         disk_name),
                          "opening encrypted device")
    IN
    IF ~opened.ok THEN opened
    ELSE
      LET mounted == context(mount(opened.os, opened.log, F,
                                   mountable.inner_uuid, disk_name,
                                   filesystem),
                             "mounting")
      IN
      IF mounted.ok THEN mounted
      ELSE
        LET closed == close_encrypted(mounted.os, mounted.log, F,
                                      mountable.outer_uuid, disk_name)
        IN [mounted EXCEPT !.os = closed.os, !.log = closed.log]

\* Mutant of do_mount: the filesystem is looked for on the outer device.
do_mount_MountsOuter(os, log, F, disk) ==
  LET disk_name == as_repr(disk)
      filesystem == inner_filesystem(disk)
      mountable == to_mountable(disk)
      log0 == Append(log, Ev("do_mount", disk_name, "", ""))
  IN
  IF mountable.kind = "Plain"
  THEN context(mount(os, log0, F, mountable.uuid, disk_name, filesystem),
               "mounting")
  ELSE
    LET opened == context(open_encrypted(os, log0, F, mountable.outer_uuid,
                                         disk_name),
                          "opening encrypted device")
    IN
    IF ~opened.ok THEN opened
    ELSE context(mount(opened.os, opened.log, F, mountable.outer_uuid,
                       disk_name, filesystem),
                 "mounting")

\* Mutant of do_mount: the result of open_encrypted is not looked at.
do_mount_IgnoresOpenError(os, log, F, disk) ==
  LET disk_name == as_repr(disk)
      filesystem == inner_filesystem(disk)
      mountable == to_mountable(disk)
      log0 == Append(log, Ev("do_mount", disk_name, "", ""))
  IN
  IF mountable.kind = "Plain"
  THEN context(mount(os, log0, F, mountable.uuid, disk_name, filesystem),
               "mounting")
  ELSE
    LET opened == context(open_encrypted(os, log0, F, mountable.outer_uuid,
                                         disk_name),
                          "opening encrypted device")
    IN
    context(mount(opened.os, opened.log, F, mountable.inner_uuid,
                  disk_name, filesystem),
            "mounting")

do_mount(os, log, F, disk) ==
  LET disk_name == as_repr(disk)
      filesystem == inner_filesystem(disk)
      mountable == to_mountable(disk)
      log0 == Append(log, Ev("do_mount", disk_name, "", ""))
  IN
  IF mountable.kind = "Plain"
  THEN context(mount(os, log0, F, mountable.uuid, disk_name, filesystem),
               "mounting")
  ELSE
    LET opened == context(open_encrypted(os, log0, F, mountable.outer_uuid,
                                         disk_name),
                          "opening encrypted device")
    IN
    IF ~opened.ok THEN opened
    ELSE context(mount(opened.os, opened.log, F, mountable.inner_uuid,
                       disk_name, filesystem),
                 "mounting")

\* Mutant of do_unmount: the mapping of an encrypted volume is left open.
do_unmount_NoClose(os, log, F, disk) ==
  LET disk_name == as_repr(disk)
      log0 == Append(log, Ev("do_unmount", disk_name, "", ""))
  IN context(unmount(os, log0, F, disk_name), "unmounting")

\* Mutant of do_unmount: the mapping is closed only when the filesystem
\* was mounted.
do_unmount_ClosesOnlyIfMounted(os, log, F, disk) ==
  LET disk_name == as_repr(disk)
      mountable == to_mountable(disk)
      log0 == Append(log, Ev("do_unmount", disk_name, "", ""))
      unmounted == context(unmount(os, log0, F, disk_name), "unmounting")
  IN
  IF mountable.kind = "Plain" THEN unmounted
  ELSE IF ~unmounted.ok THEN unmounted
  ELSE IF os.mtab[mount_path_for_name(disk_name)] = <<>> THEN unmounted
  ELSE context(close_encrypted(unmounted.os, unmounted.log, F,
                               mountable.outer_uuid, disk_name),
               "closing encrypted device")

\* Mutant of do_unmount: the mapping is closed before the filesystem is
\* unmounted.
do_unmount_CloseFirst(os, log, F, disk) ==
  LET disk_name == as_repr(disk)
      mountable == to_mountable(disk)
      log0 == Append(log, Ev("do_unmount", disk_name, "", ""))
  IN
  IF mountable.kind = "Plain"
  THEN context(unmount(os, log0, F, disk_name), "unmounting")
  ELSE
    LET closed == context(close_encrypted(os, log0, F, mountable.outer_uuid,
                                          disk_name),
                          "closing encrypted device")
    IN
    IF ~closed.ok THEN closed
    ELSE context(unmount(closed.os, closed.log, F, disk_name), "unmounting")

\* Mutant of do_unmount: a failed unmount does not end it, the mapping is
\* closed regardless and the first error is returned.
do_unmount_CloseRegardless(os, log, F, disk) ==
  LET disk_name == as_repr(disk)
      mountable == to_mountable(disk)
      log0 == Append(log, Ev("do_unmount", disk_name, "", ""))
      unmounted == context(unmount(os, log0, F, disk_name), "unmounting")
  IN
  IF mountable.kind = "Plain" THEN unmounted
  ELSE
    LET closed == context(close_encrypted(unmounted.os, unmounted.log, F,
                                          mountable.outer_uuid, disk_name),
                          "closing encrypted device")
    IN
    IF ~unmounted.ok THEN [closed EXCEPT !.ok = FALSE, !.err = unmounted.err]
    ELSE closed

do_unmount(os, log, F, disk) ==
  LET disk_name == as_repr(disk)
      mountable == to_mountable(disk)
      log0 == Append(log, Ev("do_unmount", disk_name, "", ""))
      unmounted == context(unmount(os, log0, F, disk_name), "unmounting")
  IN
  IF mountable.kind = "Plain" THEN unmounted
  ELSE IF ~unmounted.ok THEN unmounted
  ELSE context(close_encrypted(unmounted.os, unmounted.log, F,
                               mountable.outer_uuid, disk_name),
               "closing encrypted device")

\* Mutant of shell_args: every sub-shell is private.
shell_args_Always(disk) == <<"--private">>

\* The arguments do_cd gives fish besides the working directory.
shell_args(disk) == IF is_encrypted(disk) THEN <<"--private">> ELSE <<>>

\* What a run knows of its do_mount: whether it returned Ok, and what.
NoMount == [mounted |-> FALSE, ret |-> NoValue]

Mounted(r) == [mounted |-> r.ok, ret |-> r.val]

\* do_cd up to the point where it blocks in shell.wait().  val tells what
\* do_mount returned, also when the spawn then fails.
do_cd_enter(os, log, F, disk) ==
  LET mounted == do_mount(os, log, F, disk) IN
  IF ~mounted.ok THEN [mounted EXCEPT !.val = NoMount]
  ELSE
    LET spawned == ~("spawn" \in F)
        log1 == Append(mounted.log,
                       [op |-> "spawn fish", arg |-> mounted.val.mount_path,
                        dev |-> "", ret |-> IF spawned THEN "OK" ELSE "ENOENT",
                        args |-> shell_args(disk)])
    IN
    IF ~spawned
    THEN [Err(<<"spawning sub-shell">>, mounted.os, log1)
            EXCEPT !.val = Mounted(mounted)]
    ELSE Ok(Mounted(mounted), mounted.os, log1)

\* Mutant of do_cd (from wait): a failed cleanup is returned as an error.
do_cd_leave_CleanupFatal(os, log, F, disk) ==
  LET waited == ~("wait" \in F)
      log1 == Append(log, Ev("wait", "fish", "",
                             IF waited THEN "OK" ELSE "ECHILD"))
  IN
  IF ~waited THEN Err(<<"waiting for sub-shell">>, os, log1)
  ELSE do_unmount(os, log1, F, disk)

\* do_cd from the return of shell.wait() to its own return.
do_cd_leave(os, log, F, disk) ==
  LET waited == ~("wait" \in F)
      log1 == Append(log, Ev("wait", "fish", "",
                             IF waited THEN "OK" ELSE "ECHILD"))
  IN
  IF ~waited THEN Err(<<"waiting for sub-shell">>, os, log1)
  ELSE
    LET cleaned == do_unmount(os, log1, F, disk) IN
    Ok(NoValue, cleaned.os,
       Append(cleaned.log,
              Ev("eprintln",
                 IF cleaned.ok THEN "d: unmounted, bye"
                 ELSE "d: unmount failed. maybe still busy", "", "")))

\* --------------------------------------------------------------- the runs
NoSession == [active |-> FALSE]

Idle == [action |-> NoValue]

\* What the run just before a run on `disk` was, when nothing happened in
\* between: a `d m` of the same disk that succeeded, a do_mount of the same
\* disk that failed in its filesystem mount, or anything else.
Prev(disk) ==
  IF last.action = "Mount" /\ last.disk = disk /\ last.ok
  THEN "mounted"
  ELSE IF /\ last.action \in {"Mount", "Cd"}
          /\ last.disk = disk
          /\ ~last.ok
          /\ last.err[1] = "mounting"
  THEN "mount failed"
  ELSE "other"

\* What a completed run leaves for inspection: its arguments, the run
\* before it, the OS state it started from, what do_mount returned, the
\* calls it made, its result and its exit status.
RunRecord(action, disk, prev, pre, mnt, r) ==
  [action |-> action, disk |-> disk, prev |-> prev, pre |-> pre,
   mount |-> mnt, ok |-> r.ok, err |-> r.err, log |-> r.log,
   exit |-> IF r.ok THEN 0 ELSE 1]

Install(os) ==
  /\ dirs' = os.dirs
  /\ mtab' = os.mtab
  /\ maps' = os.maps
  /\ byUuid' = os.byUuid

Init ==
  /\ dirs = {}
  /\ mtab = [p \in MountPaths |-> <<>>]
  /\ maps = {}
  /\ byUuid = [u \in Uuids |-> IF u \in PhysUuids THEN PhysNode(u) ELSE NoDev]
  /\ session = NoSession
  /\ last = Idle
  /\ runs = 0
  /\ envs = 0

CanRun == ~session.active /\ runs < MaxRuns

ValidDiskTokens == {t \in DiskTokens : Disk_from_str(t).ok}

\* The effective user ids main is run under.
Euids == {"0", "1000"}

\* Mutant of main_prologue: the arguments are parsed before the root check.
main_prologue_ParsesFirst(euid, a, d) ==
  LET parsed == <<Ev("from_env", a, d,
                     IF Action_from_str(a).ok /\ Disk_from_str(d).ok
                     THEN "Ok" ELSE "Err")>>
  IN
  IF ~Action_from_str(a).ok
  THEN [ok |-> FALSE, err |-> <<"unknown action", a>>, log |-> parsed]
  ELSE IF ~Disk_from_str(d).ok
  THEN [ok |-> FALSE, err |-> <<"unknown disk", d>>, log |-> parsed]
  ELSE IF euid # "0"
  THEN [ok |-> FALSE,
        err |-> <<"must be run as root to (un)mount disks and open/close encryption">>,
        log |-> parsed \o <<Ev("geteuid", "", "", euid)>>]
  ELSE [ok |-> TRUE, err |-> <<>>,
        log |-> parsed \o <<Ev("geteuid", "", "", euid)>>]

\* main up to its dispatch: the root check, then the parse of the two
\* positional arguments.
main_prologue(euid, a, d) ==
  LET checked == <<Ev("geteuid", "", "", euid)>>
  IN
  IF euid # "0"
  THEN [ok |-> FALSE,
        err |-> <<"must be run as root to (un)mount disks and open/close encryption">>,
        log |-> checked]
  ELSE IF ~Action_from_str(a).ok
  THEN [ok |-> FALSE, err |-> <<"unknown action", a>>,
        log |-> Append(checked, Ev("from_env", a, d, "Err"))]
  ELSE IF ~Disk_from_str(d).ok
  THEN [ok |-> FALSE, err |-> <<"unknown disk", d>>,
        log |-> Append(checked, Ev("from_env", a, d, "Err"))]
  ELSE [ok |-> TRUE, err |-> <<>>,
        log |-> Append(checked, Ev("from_env", a, d, "Ok"))]

\* main without effective root, whatever its arguments: ensure! fails
\* before anything else.
MainNotRoot ==
  /\ CanRun
  /\ \E euid \in Euids \ {"0"}, a \in ActionTokens, d \in DiskTokens :
       LET p == main_prologue(euid, a, d)
       IN /\ ~p.ok
          /\ last' = RunRecord("main", NoValue, "other", OsNow, NoMount,
                               Err(p.err, OsNow, p.log))
  /\ runs' = runs + 1
  /\ UNCHANGED <<dirs, mtab, maps, byUuid, session, envs>>

\* main as root with arguments argh rejects.
MainBadArgs ==
  /\ CanRun
  /\ \E a \in ActionTokens, d \in DiskTokens :
       LET p == main_prologue("0", a, d)
       IN /\ ~p.ok
          /\ last' = RunRecord("main", NoValue, "other", OsNow, NoMount,
                               Err(p.err, OsNow, p.log))
  /\ runs' = runs + 1
  /\ UNCHANGED <<dirs, mtab, maps, byUuid, session, envs>>

\* The calls main makes before it dispatches on the action.
MainLog(a, d) == main_prologue("0", a, d).log

MainMount ==
  /\ CanRun
  /\ \E d \in ValidDiskTokens :
       LET disk == Disk_from_str(d).val IN
       \E F \in {NoFault} \cup MountFaults(disk) :
         LET r == do_mount(OsNow, MainLog("m", d), F, disk) IN
         /\ Install(r.os)
         /\ last' = RunRecord("Mount", disk, Prev(disk), OsNow, Mounted(r), r)
  /\ runs' = runs + 1
  /\ UNCHANGED <<session, envs>>

MainUnmount ==
  /\ CanRun
  /\ \E d \in ValidDiskTokens :
       LET disk == Disk_from_str(d).val IN
       \E F \in {NoFault} \cup UnmountFaults(disk) :
         LET r == do_unmount(OsNow, MainLog("u", d), F, disk) IN
         /\ Install(r.os)
         /\ last' = RunRecord("Unmount", disk, Prev(disk), OsNow, NoMount, r)
  /\ runs' = runs + 1
  /\ UNCHANGED <<session, envs>>

\* `d c <disk>` up to the blocking wait; on an error the run is over.
CdStart ==
  /\ CanRun
  /\ \E d \in ValidDiskTokens :
       LET disk == Disk_from_str(d).val IN
       \E F \in {NoFault} \cup CdEnterFaults(disk) :
         LET r == do_cd_enter(OsNow, MainLog("c", d), F, disk) IN
         /\ Install(r.os)
         /\ IF r.ok
            THEN /\ session' = [active |-> TRUE, disk |-> disk,
                                prev |-> Prev(disk), pre |-> OsNow,
                                mount |-> r.val, log |-> r.log]
                 /\ last' = Idle
            ELSE /\ session' = NoSession
                 /\ last' = RunRecord("Cd", disk, Prev(disk), OsNow, r.val, r)
  /\ runs' = runs + 1
  /\ UNCHANGED envs

\* The sub-shell exits: the rest of do_cd and of main.
CdExit ==
  /\ session.active
  /\ \E F \in {NoFault} \cup CdLeaveFaults(session.disk) :
       LET r == do_cd_leave(OsNow, session.log, F, session.disk) IN
       /\ Install(r.os)
       /\ last' = RunRecord("Cd", session.disk, session.prev, session.pre,
                            session.mount, r)
  /\ session' = NoSession
  /\ UNCHANGED <<runs, envs>>

\* The volumes that are plugged and unplugged: one plain and one encrypted,
\* the volumes of a kind being handled alike.
HotplugDisks == {"Zdani", "Sivydatni"}

\* A disk is unplugged, or plugged in again: its entry leaves or enters
\* the registry.  The part of do_cd that follows the sub-shell never reads
\* the registry, so a change during a session acts as one right after it;
\* a change no later run can observe is left out.
EnvHotplug ==
  /\ envs < MaxEnv
  /\ CanRun
  /\ \E d \in HotplugDisks :
       byUuid' = [byUuid EXCEPT ![PhysUuid(d)] =
                    IF @ = NoDev THEN PhysNode(PhysUuid(d)) ELSE NoDev]
  /\ envs' = envs + 1
  /\ last' = Idle
  /\ UNCHANGED <<dirs, mtab, maps, session, runs>>

\* The encrypted volumes of which a copy exists; the encrypted volumes are
\* handled alike, so one stands for all.
ClonedDisks == {"Sivydatni"}

\* A device that carries a copy of the filesystem of an encrypted volume
\* (a backup image, a clone) is plugged in while that filesystem's UUID has
\* no entry in the registry: the entry now names the copy.
EnvClone ==
  /\ envs < MaxEnv
  /\ CanRun
  /\ \E d \in ClonedDisks :
       /\ byUuid[to_mountable(d).inner_uuid] = NoDev
       /\ byUuid' = [byUuid EXCEPT ![to_mountable(d).inner_uuid] =
                       PhysNode(to_mountable(d).inner_uuid)]
  /\ envs' = envs + 1
  /\ last' = Idle
  /\ UNCHANGED <<dirs, mtab, maps, session, runs>>

Next ==
  \/ MainNotRoot
  \/ MainBadArgs
  \/ MainMount
  \/ MainUnmount
  \/ CdStart
  \/ CdExit
  \/ EnvHotplug
  \/ EnvClone

Spec == Init /\ [][Next]_vars

\* ------------------------------------------------------------- properties
Ops(log) == {log[i].op : i \in 1..Len(log)}

\* The last completed run reached the dispatch on its action.
LastRan == last.action \in Actions

LastLog == IF LastRan THEN last.log ELSE <<>>

MountPathOf(disk) == mount_path_for_name(as_repr(disk))

SessionNameOf(disk) ==
  opened_name_for_encrypted(to_mountable(disk).outer_uuid, as_repr(disk))

\* Some call `op` of the log came back with a value outside `tolerated`.
Failed(log, op, tolerated) ==
  \E i \in 1..Len(log) : log[i].op = op /\ log[i].ret \notin tolerated

\* C1: a do_mount that immediately follows a successful do_mount of the
\* same volume succeeds with was_already_mounted = TRUE, makes no OS mount
\* that succeeds, and leaves exactly one mount at the mount point.
C1_SecondMountIsAlreadyMounted ==
  /\ (last.action = "Mount" /\ last.prev = "mounted") =>
       /\ last.ok
       /\ last.mount.ret.was_already_mounted
       /\ ~(\E i \in 1..Len(last.log) :
              last.log[i].op = "sys mount" /\ last.log[i].ret = "OK")
       /\ mtab = last.pre.mtab
       /\ Len(mtab[MountPathOf(last.disk)]) = 1
  /\ (session.active /\ session.prev = "mounted") =>
       /\ session.mount.ret.was_already_mounted
       /\ mtab = session.pre.mtab
       /\ Len(mtab[MountPathOf(session.disk)]) = 1
  /\ (last.action = "Cd" /\ last.prev = "mounted") =>
       /\ last.mount.mounted
       /\ last.mount.ret.was_already_mounted

C1_Witness ==
  /\ last.action = "Mount"
  /\ last.prev = "mounted"
  /\ is_encrypted(last.disk)
  /\ last.mount.ret.was_already_mounted

\* C2 as claimed: do_unmount of a volume that is not mounted succeeds and
\* changes nothing, for plain and for encrypted volumes alike.
C2_UnmountOfUnmountedSucceeds ==
  (last.action = "Unmount" /\ last.pre.mtab[MountPathOf(last.disk)] = <<>>) =>
    /\ last.ok
    /\ OsNow = last.pre

\* C2 as amended: do_unmount of a volume that is not mounted makes no
\* unmount call or one that is tolerated (EINVAL) and leaves directories and
\* mount table alone; for a plain volume it succeeds and changes nothing;
\* for an encrypted volume close is still run and is not tolerated: when
\* the mapping is not active, do_unmount fails with the close error,
\* having changed nothing.
C2_UnmountOfUnmounted ==
  (last.action = "Unmount" /\ last.pre.mtab[MountPathOf(last.disk)] = <<>>) =>
    /\ ~Failed(last.log, "sys umount", {"EINVAL"})
    /\ dirs = last.pre.dirs
    /\ mtab = last.pre.mtab
    /\ ~is_encrypted(last.disk) => last.ok /\ OsNow = last.pre
    /\ is_encrypted(last.disk) =>
         /\ "cryptsetup close" \in Ops(last.log)
         /\ SessionNameOf(last.disk) \notin last.pre.maps =>
              /\ ~last.ok
              /\ last.err[1] = "closing encrypted device"
              /\ last.exit # 0
              /\ OsNow = last.pre

C2_Witness ==
  /\ last.action = "Unmount"
  /\ is_encrypted(last.disk)
  /\ last.pre.mtab[MountPathOf(last.disk)] = <<>>
  /\ SessionNameOf(last.disk) \notin last.pre.maps
  /\ ~last.ok

\* C3: in every do_unmount of an encrypted volume, encryption-close is
\* invoked only after the filesystem-unmount step of that call.
C3_UnmountPrecedesClose ==
  \A i \in 1..Len(LastLog) :
    LastLog[i].op \in {"close_encrypted", "cryptsetup close"} =>
      \E k \in 1..(i - 1), j \in 1..(i - 1) :
        /\ k < j
        /\ LastLog[k].op = "do_unmount"
        /\ LastLog[j].op = "unmount"

C3_Witness ==
  /\ last.action = "Unmount"
  /\ is_encrypted(last.disk)
  /\ "sys umount" \in Ops(last.log)
  /\ "cryptsetup close" \in Ops(last.log)

\* C4 as claimed: when the filesystem-unmount step of do_unmount fails with
\* an error that is not tolerated, encryption-close is still attempted.
C4_CloseAttemptedAfterFailedUnmount ==
  (/\ LastRan
   /\ is_encrypted(last.disk)
   /\ Failed(last.log, "sys umount", {"OK", "EINVAL"})) =>
    "close_encrypted" \in Ops(last.log)

\* C4 as amended: when the filesystem-unmount step of do_unmount fails with
\* an error that is not tolerated, do_unmount returns that error at once:
\* encryption-close is not attempted in that call, and `d u` exits
\* non-zero having changed nothing.
C4_FailedUnmountSkipsClose ==
  (/\ LastRan
   /\ is_encrypted(last.disk)
   /\ Failed(last.log, "sys umount", {"OK", "EINVAL"})) =>
    /\ "close_encrypted" \notin Ops(last.log)
    /\ "cryptsetup close" \notin Ops(last.log)
    /\ last.action = "Unmount" =>
         /\ ~last.ok
         /\ last.err[1] = "unmounting"
         /\ last.exit # 0
         /\ OsNow = last.pre

C4_Witness ==
  /\ last.action = "Unmount"
  /\ is_encrypted(last.disk)
  /\ Failed(last.log, "sys umount", {"OK", "EINVAL"})
  /\ SessionNameOf(last.disk) \in maps

\* C5 as claimed: when the session's do_mount found the volume already
\* mounted, do_cd does not call do_unmount when the shell exits.
C5_AlreadyMountedSkipsUnmount ==
  (/\ last.action = "Cd"
   /\ last.mount.mounted
   /\ last.mount.ret.was_already_mounted) =>
    "do_unmount" \notin Ops(last.log)

\* C6 as claimed: on every path on which do_cd returns after its do_mount
\* mounted the volume, do_unmount has been invoked.
C6_CleanupOnEveryExit ==
  (/\ last.action = "Cd"
   /\ last.mount.mounted
   /\ ~last.mount.ret.was_already_mounted) =>
    "do_unmount" \in Ops(last.log)

\* The open step of the run's do_mount failed: the outer device did not
\* resolve, or the unlock exited non-zero.
OpenFailed(log, disk) ==
  \/ Failed(log, "cryptsetup open", {"0"})
  \/ \E i \in 1..Len(log) :
       /\ log[i].op = "canonicalize"
       /\ log[i].arg = to_mountable(disk).outer_uuid
       /\ log[i].ret # "OK"

\* C7: for an encrypted volume, when the open step of do_mount fails, the
\* filesystem mount is never attempted (no mount() call, no directory
\* creation, no mount syscall), directories and mount table are unchanged
\* and do_mount returns the open error.
C7_OpenFailureStopsMount ==
  (/\ last.action \in {"Mount", "Cd"}
   /\ is_encrypted(last.disk)
   /\ OpenFailed(last.log, last.disk)) =>
    /\ Ops(last.log) \cap {"mount", "create_dir_all", "sys mount"} = {}
    /\ mtab = last.pre.mtab
    /\ dirs = last.pre.dirs
    /\ ~last.mount.mounted
    /\ ~last.ok
    /\ last.err[1] = "opening encrypted device"
    /\ last.exit # 0

C7_Witness ==
  /\ last.action = "Mount"
  /\ is_encrypted(last.disk)
  /\ Failed(last.log, "cryptsetup open", {"0"})
  /\ MountPathOf(last.disk) \notin dirs

\* C8 for one do_mount that started from OS state `pre`, made the calls
\* `log` and has left the OS as it is now.
OpenWasNoOp(disk, pre, log) ==
  SessionNameOf(disk) \in pre.maps =>
    /\ \E i \in 1..Len(log) :
         /\ log[i].op = "cryptsetup status"
         /\ log[i].arg = SessionNameOf(disk)
         /\ log[i].ret = "0"
    /\ "cryptsetup open" \notin Ops(log)
    /\ ~(\E i \in 1..Len(log) :
           /\ log[i].op = "canonicalize"
           /\ log[i].arg = to_mountable(disk).outer_uuid)
    /\ maps = pre.maps
    /\ byUuid = pre.byUuid
    /\ "mount" \in Ops(log)

\* C8: open_encrypted called while the mapping with the derived session
\* name is active runs no `cryptsetup open`, does not resolve the outer
\* device, leaves mappings and registry unchanged and reports success (the
\* do_mount that called it goes on to mount).
C8_OpenWhenActiveIsNoOp ==
  /\ (last.action = "Mount" /\ is_encrypted(last.disk)) =>
       /\ OpenWasNoOp(last.disk, last.pre, last.log)
       /\ SessionNameOf(last.disk) \in last.pre.maps =>
            ~(~last.ok /\ last.err[1] = "opening encrypted device")
  /\ (session.active /\ is_encrypted(session.disk)) =>
       OpenWasNoOp(session.disk, session.pre, session.log)

C8_Witness ==
  /\ last.action = "Mount"
  /\ is_encrypted(last.disk)
  /\ SessionNameOf(last.disk) \in last.pre.maps
  /\ last.ok

\* C9: once do_cd has spawned the shell and waited for it, do_cd returns
\* Ok and the command exits zero, whether or not the cleanup do_unmount
\* failed in its unmount or in its close step.
C9_CleanupFailureNotFatal ==
  (/\ last.action = "Cd"
   /\ \E i \in 1..Len(last.log) :
        last.log[i].op = "wait" /\ last.log[i].ret = "OK") =>
    /\ last.ok
    /\ last.exit = 0

C9_Witness ==
  /\ last.action = "Cd"
  /\ Failed(last.log, "cryptsetup close", {"0"})
  /\ last.exit = 0

\* The filesystem mount of the run's do_mount was attempted and failed.
MountFailed(log, disk) ==
  /\ "mount" \in Ops(log)
  /\ \/ Failed(log, "create_dir_all", {"OK"})
     \/ Failed(log, "sys mount", {"OK", "EBUSY"})
     \/ \E i \in 1..Len(log) :
          /\ log[i].op = "canonicalize"
          /\ log[i].arg = to_mountable(disk).inner_uuid
          /\ log[i].ret # "OK"

\* C10: for an encrypted volume, when open succeeds and the filesystem
\* mount then fails, do_mount returns the mount error without invoking
\* close and the mapping stays active; the do_mount that follows performs
\* no unlock.
C10_NoRollback ==
  /\ (/\ last.action \in {"Mount", "Cd"}
      /\ is_encrypted(last.disk)
      /\ MountFailed(last.log, last.disk)) =>
       /\ ~last.ok
       /\ last.err[1] = "mounting"
       /\ Ops(last.log) \cap {"close_encrypted", "cryptsetup close"} = {}
       /\ SessionNameOf(last.disk) \in maps
  /\ (/\ last.action \in {"Mount", "Cd"}
      /\ is_encrypted(last.disk)
      /\ last.prev = "mount failed") =>
       "cryptsetup open" \notin Ops(last.log)
  /\ (/\ session.active
      /\ is_encrypted(session.disk)
      /\ session.prev = "mount failed") =>
       "cryptsetup open" \notin Ops(session.log)

C10_Witness ==
  /\ last.action = "Mount"
  /\ is_encrypted(last.disk)
  /\ last.prev = "mount failed"
  /\ last.ok
  /\ ~last.mount.ret.was_already_mounted

\* The volume is fully torn down: nothing is mounted at its mount point
\* and, for an encrypted volume, its mapping is not active.
TornDown(disk) ==
  /\ mtab[MountPathOf(disk)] = <<>>
  /\ is_encrypted(disk) =>
       /\ SessionNameOf(disk) \notin maps
       /\ byUuid[to_mountable(disk).inner_uuid] # MapperNode(SessionNameOf(disk))

\* C11: after a successful do_mount followed by a successful do_unmount of
\* the same volume (two runs, or the two ends of one `d c` session) the
\* volume is fully torn down.
C11_MountThenUnmountTearsDown ==
  /\ (last.action = "Unmount" /\ last.prev = "mounted" /\ last.ok) =>
       TornDown(last.disk)
  /\ (/\ last.action = "Cd"
      /\ last.mount.mounted
      /\ \E i \in 1..Len(last.log) :
           last.log[i].arg = "d: unmounted, bye") =>
       TornDown(last.disk)

C11_Witness ==
  /\ last.action = "Unmount"
  /\ last.prev = "mounted"
  /\ last.ok
  /\ is_encrypted(last.disk)
  /\ SessionNameOf(last.disk) \in last.pre.maps
  /\ last.pre.mtab[MountPathOf(last.disk)] # <<>>

\* C12 as claimed: the device an encrypted volume's do_mount passes to the
\* filesystem mount is the mapping of the derived session name.
C12_MountsSessionNamedDevice ==
  (last.action \in {"Mount", "Cd"} /\ is_encrypted(last.disk)) =>
    \A i \in 1..Len(last.log) :
      last.log[i].op = "sys mount" =>
        last.log[i].dev = MapperNode(SessionNameOf(last.disk))

\* C12 as amended: the device an encrypted volume's do_mount passes to the
\* filesystem mount is the one the by-uuid registry gave for inner_uuid in
\* that call; it is the mapping of the derived session name whenever no
\* other device held the registry entry of inner_uuid when the run began.
C12_MountsDeviceOfInnerUuid ==
  (last.action \in {"Mount", "Cd"} /\ is_encrypted(last.disk)) =>
    \A i \in 1..Len(last.log) :
      last.log[i].op = "sys mount" =>
        /\ i > 1
        /\ last.log[i - 1].op = "canonicalize"
        /\ last.log[i - 1].arg = to_mountable(last.disk).inner_uuid
        /\ last.log[i - 1].ret = "OK"
        /\ last.log[i].dev = last.log[i - 1].dev
        /\ last.action = "Mount" =>
             last.log[i].dev = byUuid[to_mountable(last.disk).inner_uuid]
        /\ last.pre.byUuid[to_mountable(last.disk).inner_uuid]
             \in {NoDev, MapperNode(SessionNameOf(last.disk))} =>
               last.log[i].dev = MapperNode(SessionNameOf(last.disk))

C12_Witness ==
  /\ last.action = "Mount"
  /\ is_encrypted(last.disk)
  /\ last.ok
  /\ "cryptsetup open" \in Ops(last.log)
  /\ mtab[MountPathOf(last.disk)] =
       <<PhysNode(to_mountable(last.disk).inner_uuid)>>

\* C13: a run without effective root fails at the root check: that check
\* is its only call (no argument parsing, no device resolution, no
\* directory, no mount or unmount, no cryptsetup, no shell), the OS state is
\* what it was, and the exit status is not zero.  Every run that made any
\* other call passed the check first.
C13_NotRootFailsFirst ==
  /\ (last.action # NoValue /\ last.log[1].ret # "0") =>
       /\ last.action = "main"
       /\ Ops(last.log) = {"geteuid"}
       /\ Len(last.log) = 1
       /\ ~last.ok
       /\ last.exit # 0
       /\ last.err = <<"must be run as root to (un)mount disks and open/close encryption">>
       /\ OsNow = last.pre
       /\ ~session.active
  /\ last.action # NoValue => last.log[1].op = "geteuid"
  /\ session.active => session.log[1] = Ev("geteuid", "", "", "0")

C13_Witness ==
  /\ last.action = "main"
  /\ last.log = <<Ev("geteuid", "", "", "1000")>>
  /\ last.exit = 1
  /\ last.pre.maps # {}

\* C14: a volume token the parser does not know fails with an error that
\* names the valid choices, the tokens named being exactly the tokens the
\* parser accepts, and no mount, unmount or unlock is attempted.
C14_UnknownDiskNamesAcceptedTokens ==
  (last.action = "main" /\ ~last.ok /\ last.err[1] = "unknown disk") =>
    /\ last.err[2] \notin ValidDiskTokens
    /\ {p[1] : p \in UnknownDisk_valid} = ValidDiskTokens
    /\ Ops(last.log) = {"geteuid", "from_env"}
    /\ OsNow = last.pre

\* The arguments of every sub-shell launched in `log` are those of a
\* private shell when the volume's Mountable is Encrypted and none when it
\* is Plain.
PrivateIffEncrypted(log, disk) ==
  \A i \in 1..Len(log) :
    log[i].op = "spawn fish" =>
      /\ ("--private" \in Range(log[i].args))
           <=> (to_mountable(disk).kind = "Encrypted")
      /\ to_mountable(disk).kind = "Plain" => log[i].args = <<>>
      /\ to_mountable(disk).kind = "Encrypted" =>
           log[i].args = <<"--private">>

\* C15: the sub-shell is launched with `--private` exactly when the
\* volume's Mountable is Encrypted; for a Plain volume it gets no extra
\* argument.
C15_PrivateShellIffEncrypted ==
  /\ session.active => PrivateIffEncrypted(session.log, session.disk)
  /\ last.action = "Cd" => PrivateIffEncrypted(last.log, last.disk)

C15_Witness ==
  /\ session.active
  /\ is_encrypted(session.disk)
  /\ \E i \in 1..Len(session.log) :
       /\ session.log[i].op = "spawn fish"
       /\ session.log[i].ret = "OK"
       /\ session.log[i].args = <<"--private">>

\* C16: the mount backend classifies the outcome of the mount syscall:
\* success of the OS gives success with was_already_mounted = FALSE, EBUSY
\* gives success with was_already_mounted = TRUE, every other error is a
\* failure that is propagated, and nothing else is a success.
C16_MountClassifiesSyscallResult ==
  last.action \in {"Mount", "Cd"} =>
    /\ \A i \in 1..Len(last.log) :
         last.log[i].op = "sys mount" =>
           /\ last.log[i].ret = "OK" =>
                /\ last.mount.mounted
                /\ ~last.mount.ret.was_already_mounted
           /\ last.log[i].ret = "EBUSY" =>
                /\ last.mount.mounted
                /\ last.mount.ret.was_already_mounted
                /\ last.log[i].dev \in Range(last.pre.mtab[last.log[i].arg])
           /\ last.log[i].ret \notin {"OK", "EBUSY"} =>
                /\ ~last.mount.mounted
                /\ ~last.ok
                /\ last.exit # 0
                /\ last.err = <<"mounting", "making mount syscall",
                                last.log[i].ret>>
           /\ last.action = "Mount" => (last.ok <=> last.mount.mounted)
    /\ last.mount.mounted =>
         /\ last.mount.ret.mount_path = MountPathOf(last.disk)
         /\ \E i \in 1..Len(last.log) :
              /\ last.log[i].op = "sys mount"
              /\ last.log[i].ret \in {"OK", "EBUSY"}

C16_Witness ==
  /\ last.action = "Mount"
  /\ \E i \in 1..Len(last.log) :
       last.log[i].op = "sys mount" /\ last.log[i].ret = "EIO"
  /\ ~last.ok
  /\ \E d \in Disks \ {last.disk} : last.pre.mtab[MountPathOf(d)] # <<>>

\* The unmount step of the last `d u` returned success: do_unmount went on
\* to the close of an encrypted volume, or returned Ok for a plain one.
UnmountStepOk ==
  IF is_encrypted(last.disk)
  THEN "close_encrypted" \in Ops(last.log)
  ELSE last.ok

\* C17: the unmount backend succeeds without any syscall when the mount
\* path does not exist; when it exists it makes the umount syscall, whose
\* success and whose EINVAL are success, and whose other errors are
\* failures that are propagated.
C17_UnmountClassifiesSyscallResult ==
  last.action = "Unmount" =>
    /\ MountPathOf(last.disk) \notin last.pre.dirs =>
         /\ "sys umount" \notin Ops(last.log)
         /\ "unmount" \in Ops(last.log)
         /\ UnmountStepOk
         /\ mtab = last.pre.mtab
    /\ MountPathOf(last.disk) \in last.pre.dirs =>
         \E i \in 1..Len(last.log) :
           /\ last.log[i].op = "sys umount"
           /\ last.log[i].arg = MountPathOf(last.disk)
           /\ \A j \in 1..Len(last.log) :
                last.log[j].op = "sys umount" => j = i
    /\ \A i \in 1..Len(last.log) :
         last.log[i].op = "sys umount" =>
           /\ last.log[i].ret \in {"OK", "EINVAL"} => UnmountStepOk
           /\ last.log[i].ret = "EINVAL" => mtab = last.pre.mtab
           /\ last.log[i].ret \notin {"OK", "EINVAL"} =>
                /\ ~UnmountStepOk
                /\ ~last.ok
                /\ last.exit # 0
                /\ last.err = <<"unmounting", "making umount syscall",
                                last.log[i].ret>>

C17_Witness ==
  /\ last.action = "Unmount"
  /\ MountPathOf(last.disk) \notin last.pre.dirs
  /\ "sys umount" \notin Ops(last.log)
  /\ ~is_encrypted(last.disk)
  /\ last.ok
  /\ last.pre.dirs # {}

\* A call of `log` failed for a reason outside the program's reach: a
\* device that does not resolve, a directory that cannot be made, a
\* refused passphrase, a mount rejected by the filesystem, a busy mount
\* point, a mapping that cannot be released.
ExternalFailure(log) ==
  \E i \in 1..Len(log) :
    \/ log[i].op = "canonicalize" /\ log[i].ret # "OK"
    \/ log[i].op = "create_dir_all" /\ log[i].ret # "OK"
    \/ log[i].op = "cryptsetup open" /\ log[i].ret = "2"
    \/ log[i].op = "sys mount" /\ log[i].ret \notin {"OK", "EBUSY"}
    \/ log[i].op = "sys umount" /\ log[i].ret \notin {"OK", "EINVAL"}
    \/ log[i].op = "cryptsetup close" /\ log[i].ret = "5"

\* The states an earlier run can leave an encrypted volume in.
ClosedUnmounted(os, disk) ==
  SessionNameOf(disk) \notin os.maps /\ os.mtab[MountPathOf(disk)] = <<>>

OpenUnmounted(os, disk) ==
  SessionNameOf(disk) \in os.maps /\ os.mtab[MountPathOf(disk)] = <<>>

OpenMounted(os, disk) ==
  SessionNameOf(disk) \in os.maps /\ os.mtab[MountPathOf(disk)] # <<>>

\* C18: for an encrypted volume, whatever an earlier run left behind
\* (mapping closed and not mounted, open and not mounted, open and
\* mounted), a do_mount whose devices resolve and whose external operations
\* succeed returns success with the mapping open and the filesystem
\* mounted, and such a do_unmount started with the mapping open ends with
\* the filesystem unmounted and the mapping closed.
C18_ReinvocationTolerated ==
  /\ (/\ last.action = "Mount"
      /\ is_encrypted(last.disk)
      /\ ~ExternalFailure(last.log)) =>
       /\ last.ok
       /\ OpenMounted(OsNow, last.disk)
  /\ (/\ last.action = "Unmount"
      /\ is_encrypted(last.disk)
      /\ OpenUnmounted(last.pre, last.disk) \/ OpenMounted(last.pre, last.disk)
      /\ ~ExternalFailure(last.log)) =>
       /\ last.ok
       /\ ClosedUnmounted(OsNow, last.disk)
  /\ (session.active /\ is_encrypted(session.disk)) =>
       OpenMounted(OsNow, session.disk)

\* A do_mount onto a mapping that a failed run left open and unmounted.
C18_Witness ==
  /\ last.action = "Mount"
  /\ is_encrypted(last.disk)
  /\ last.prev = "mount failed"
  /\ OpenUnmounted(last.pre, last.disk)
  /\ ~ExternalFailure(last.log)
  /\ last.ok
  /\ OpenMounted(OsNow, last.disk)

\* A do_unmount onto a mapping that a failed run left open and unmounted.
C18_WitnessUnmount ==
  /\ last.action = "Unmount"
  /\ is_encrypted(last.disk)
  /\ OpenUnmounted(last.pre, last.disk)
  /\ last.ok
  /\ ClosedUnmounted(OsNow, last.disk)

\* Every close of `log` comes after an unmount step that returned success,
\* and the filesystem of `disk` is not mounted once the run is over (the
\* close leaves the mount table alone, so it was not mounted at the close).
CloseOnlyAfterUnmount(log, disk) ==
  \A i \in 1..Len(log) :
    log[i].op = "cryptsetup close" =>
      /\ \E j \in 1..(i - 1) : log[j].op = "unmount"
      /\ \A k \in 1..(i - 1) :
           log[k].op = "sys umount" => log[k].ret \in {"OK", "EINVAL"}
      /\ mtab[MountPathOf(disk)] = <<>>
      /\ ~MapperInUse(OsNow, SessionNameOf(disk))

\* C19: the program never closes a mapping while the volume's filesystem
\* is mounted: the close of do_unmount is reached only after the unmount
\* step returned success, and in every reachable state an encrypted
\* volume whose filesystem is mounted has its mapping active.
C19_MountedImpliesMappingActive ==
  /\ \A d \in EncryptedDisks :
       mtab[MountPathOf(d)] # <<>> => SessionNameOf(d) \in maps
  /\ last.action \in {"Unmount", "Cd"} =>
       CloseOnlyAfterUnmount(last.log, last.disk)

C19_Witness ==
  /\ last.action = "Cd"
  /\ is_encrypted(last.disk)
  /\ \E i \in 1..Len(last.log) :
       last.log[i].op = "cryptsetup close" /\ last.log[i].ret = "0"
  /\ \E i \in 1..Len(last.log) :
       last.log[i].op = "sys umount" /\ last.log[i].ret = "OK"
  /\ SessionNameOf(last.disk) \notin maps

\* Since the OS state `pre`, nothing of a volume other than `disk` has
\* changed: not its mount-table entry, not its mount-point directory, not
\* its mapping.
OthersUnchanged(pre, disk) ==
  \A d \in Disks \ {disk} :
    /\ mtab[MountPathOf(d)] = pre.mtab[MountPathOf(d)]
    /\ (MountPathOf(d) \in dirs) <=> (MountPathOf(d) \in pre.dirs)
    /\ is_encrypted(d) =>
         ((SessionNameOf(d) \in maps) <=> (SessionNameOf(d) \in pre.maps))

\* C20: the mount-point path and the derived session name are injective
\* in the volume, and a do_mount, do_unmount or do_cd on one volume leaves
\* the mount-table entry, the mount-point directory and the mapping of
\* every other volume as they were.
C20_OtherVolumesUntouched ==
  /\ \A d1, d2 \in Disks :
       d1 # d2 => MountPathOf(d1) # MountPathOf(d2)
  /\ \A d1, d2 \in EncryptedDisks :
       d1 # d2 => SessionNameOf(d1) # SessionNameOf(d2)
  /\ LastRan => OthersUnchanged(last.pre, last.disk)
  /\ session.active => OthersUnchanged(session.pre, session.disk)

\* A run on one volume while another volume is open and mounted.
C20_Witness ==
  /\ LastRan
  /\ last.ok
  /\ OsNow # last.pre
  /\ \E d \in EncryptedDisks \ {last.disk} :
       /\ mtab[MountPathOf(d)] # <<>>
       /\ SessionNameOf(d) \in maps

====
